---------------------------- MODULE Spec2Model ----------------------------
(* A model of interop/src/qif.rs: the length-prefixed frame parser          *)
(* (BlockIterator), the decode driver (EncodedFile::decode), the reference  *)
(* locator (find_qif, find_qif_dir), the directory enumeration              *)
(* (ImplEncodedDir::iter), the classification of the input path            *)
(* (InputType::what_is) and the batch loop of main.                         *)
EXTENDS Integers, Sequences, FiniteSets, TLC

VARIABLES
    encoded,    \* the bytes of the file under decode (fs::read's result)
    frames,     \* input: the frames the buffer was built from
    tail,       \* input: what follows the last complete frame
    blocks,     \* the BlockIterator: [pos, last_block_len] over `encoded`
    ret,        \* the value the last call of BlockIterator::next returned
    yielded,    \* history: every frame BlockIterator::next has yielded
    outcome,    \* history: the first return that was not a frame, and when
    dec,        \* the locals of EncodedFile::decode, and how it ended
    input,      \* what InputType::what_is returned to main
    main,       \* main: its position, its loop index, `failures`, its output
    tree,       \* the directory tree a reference is looked up in
    query,      \* the path find_qif or InputType::what_is is called with
    found,      \* what find_qif returned, and the directories it read
    listing,    \* what ImplEncodedDir::iter gave for the innermost directory
    classified  \* what InputType::what_is returned for `query`

parserVars == <<blocks, ret, yielded, outcome>>
fileVars == <<encoded, frames, tail>>
findVars == <<tree, query, found, listing, classified>>
vars == <<encoded, frames, tail, blocks, ret, yielded, outcome, dec, input,
          main, tree, query, found, listing, classified>>

-----------------------------------------------------------------------------
(* Bounds of the model. *)

MaxFrames == 2          \* complete frames in a buffer of the parser runs
MaxPayloadLen == 2      \* payload bytes of a complete frame
MaxMissing == 2         \* bytes a truncated frame's payload falls short by
MaxFileFrames == 3      \* complete frames in a file of the decode runs
MaxFiles == 2           \* files in the directory main iterates
MaxDepth == 4           \* directories between the root and an encoded file

(* Program constants. *)

U64Size == 8            \* mem::size_of::<u64>()
U32Size == 4            \* mem::size_of::<u32>()
HeaderSize == U64Size + U32Size
SearchDepth == 4        \* path.ancestors().take(4)

-----------------------------------------------------------------------------
(* Fixed-width big-endian integers (quinn_proto::coding::Codec for u64 and  *)
(* u32). A decoded value can exceed the integers TLC computes with, so a    *)
(* value is held as its base-256 digits, most significant first, without    *)
(* leading zeros: <<>> is 0, <<1, 2>> is 258.                               *)

RECURSIVE Strip(_)
Strip(bs) ==
    IF bs = <<>> THEN <<>>
    ELSE IF Head(bs) = 0 THEN Strip(Tail(bs)) ELSE bs

RECURSIVE Digits(_)
Digits(n) == IF n = 0 THEN <<>> ELSE Append(Digits(n \div 256), n % 256)

RECURSIVE NatOf(_)
NatOf(v) ==
    IF v = <<>> THEN 0
    ELSE NatOf(SubSeq(v, 1, Len(v) - 1)) * 256 + v[Len(v)]

IsPrefix(s, t) == Len(s) <= Len(t) /\ s = SubSeq(t, 1, Len(s))

Zeros(n) == [i \in 1..n |-> 0]

Pad(v, width) == Zeros(width - Len(v)) \o v

Reverse(bs) == [i \in 1..Len(bs) |-> bs[Len(bs) + 1 - i]]

(* Mutant: the stream id read least significant byte first. *)
U64DecodeLittleEndian(bs) == Strip(Reverse(bs))

U64Decode(bs) == Strip(bs)
U64Encode(v) == Pad(v, U64Size)
U32Decode(bs) == Strip(bs)
U32Encode(v) == Pad(v, U32Size)

(* remaining < length, for a remaining below 2^24 (every buffer here is). *)
LessThanLength(remaining, length) ==
    Len(length) > 3 \/ remaining < NatOf(length)

-----------------------------------------------------------------------------
(* BlockIterator *)

Ret(kind, id, block, n) == [kind |-> kind, id |-> id, block |-> block, n |-> n]
NoRet == Ret("NotCalled", <<>>, <<>>, 0)
OkNone == Ret("None", <<>>, <<>>, 0)
OkSome(block, current) == Ret("Some", current, block, 0)
ErrTrailingData(n) == Ret("TrailingData", <<>>, <<>>, n)
ErrUnexpectedEnd == Ret("UnexpectedEnd", <<>>, <<>>, 0)
Panic == Ret("Panic", <<>>, <<>>, 0)

BlockIteratorNew == [pos |-> 0, last_block_len |-> 0]

Remaining(buf, b) == Len(buf) - b.pos

(* Mutant: the previous frame's payload is not skipped. *)
SkipNothing(b) == b

(* self.buf.advance(self.last_block_len), once it is known not to panic. *)
SkipLastBlock(b) == [b EXCEPT !.pos = b.pos + b.last_block_len]

(* Mutant: the header is read without being consumed. *)
PastHeaderPeek(b) == b

(* u64::decode and u32::decode move the cursor past the 12 header bytes. *)
PastHeader(b) == [b EXCEPT !.pos = b.pos + U64Size + U32Size]

(* One call of next on iterator state b over buf: the new iterator state    *)
(* and the value returned. Buf::advance past the end of a Cursor panics.    *)
BlockIteratorNext(buf, b) ==
    IF b.last_block_len > Remaining(buf, b)
    THEN [b |-> b, ret |-> Panic]
    ELSE
    LET b1 == SkipLastBlock(b) IN
    IF Remaining(buf, b1) < U64Size + U32Size
    THEN IF Remaining(buf, b1) > 0
         THEN [b |-> b1, ret |-> ErrTrailingData(Remaining(buf, b1))]
         ELSE [b |-> b1, ret |-> OkNone]
    ELSE
    LET current == U64Decode(SubSeq(buf, b1.pos + 1, b1.pos + U64Size))
        length  == U32Decode(SubSeq(buf, b1.pos + U64Size + 1,
                                         b1.pos + U64Size + U32Size))
        b2 == PastHeader(b1)
    IN  IF LessThanLength(Remaining(buf, b2), length)
        THEN [b |-> b2, ret |-> ErrUnexpectedEnd]
        ELSE [b |-> [b2 EXCEPT !.last_block_len = NatOf(length)],
              ret |-> OkSome(SubSeq(buf, b2.pos + 1, b2.pos + NatOf(length)),
                             current)]

-----------------------------------------------------------------------------
(* The binary frame format, and the buffers the parser is run on. *)

Frame(id, payload) == [id |-> id, payload |-> payload]

EncodeFrame(f) ==
    U64Encode(f.id) \o U32Encode(Digits(Len(f.payload))) \o f.payload

RECURSIVE Concat(_)
Concat(fs) ==
    IF fs = <<>> THEN <<>> ELSE EncodeFrame(Head(fs)) \o Concat(Tail(fs))

SeqsUpTo(S, n) == UNION {[1..m -> S] : m \in 0..n}

Pattern(k) == [i \in 1..k |-> i]

ParserIds == {Digits(0), Digits(1), Digits(258)}

ParserFrames ==
    {Frame(id, Pattern(k)) : id \in ParserIds, k \in 0..MaxPayloadLen}

TailOf(kind, bytes) == [kind |-> kind, bytes |-> bytes]

NoTail == TailOf("none", <<>>)

TrailingTails ==
    {TailOf("trailing", [i \in 1..n |-> 9]) : n \in 1..(HeaderSize - 1)}

(* The bytes that follow a header declaring more than is there. The zero    *)
(* bytes read, as a header, as stream 0 with length 0.                      *)
TruncatedBodies == {<<>>, <<5>>, Zeros(HeaderSize), Zeros(HeaderSize + 1)}

TruncatedTails ==
    {TailOf("truncated",
          U64Encode(id) \o U32Encode(Digits(Len(body) + m)) \o body) :
        id \in ParserIds, body \in TruncatedBodies, m \in 1..MaxMissing}

ParserTails == {NoTail} \cup TrailingTails \cup TruncatedTails

-----------------------------------------------------------------------------
(* The external codec (quinn_h3::qpack), at its interface: a table state,   *)
(* "apply encoder instruction" and "decode one header block". The table is  *)
(* the history of what was applied to it and a decoded header list is the   *)
(* pair of the table it was decoded against and the block's bytes, so that  *)
(* any dependence of a result on the table or the bytes shows. The codec    *)
(* rejects the payloads that start with the byte 255.                       *)

DynamicTableNew == <<>>

Malformed(bytes) == bytes # <<>> /\ bytes[1] = 255

OnEncoderRecv(table, bytes) ==
    IF Malformed(bytes)
    THEN [ok |-> FALSE, table |-> table]
    ELSE [ok |-> TRUE, table |-> Append(table, <<"instruction", bytes>>)]

DecodeHeader(table, bytes) ==
    IF Malformed(bytes)
    THEN [ok |-> FALSE, table |-> table, fields |-> <<>>]
    ELSE [ok |-> TRUE, table |-> Append(table, <<"block", bytes>>),
          fields |-> <<table, bytes>>]

-----------------------------------------------------------------------------
(* EncodedFile::decode *)

Result(kind, err, value) == [kind |-> kind, err |-> err, value |-> value]
Running == Result("Running", "", <<>>)
Ok(value) == Result("Ok", "", value)
Err(e) == Result("Err", e, <<>>)
Panicked(e) == Result("Panic", e, <<>>)

(* A file of the filesystem: readable with its bytes, or not readable. *)
File(readable, bytes) == [readable |-> readable, bytes |-> bytes]

(* Mutant: the table is the one the last decode left behind. *)
DecodeLocalsKeptTable ==
    [blocks |-> BlockIteratorNew, table |-> dec.table, count |-> 0,
     decoded |-> <<>>, applied |-> <<>>, result |-> Running]

(* The locals after lines 59-63; `applied` is history: the frames handed to *)
(* the codec, in order.                                                     *)
DecodeLocals ==
    [blocks |-> BlockIteratorNew, table |-> DynamicTableNew, count |-> 0,
     decoded |-> <<>>, applied |-> <<>>, result |-> Running]

(* Mutant: the expected id is the count, not the count plus one. *)
WrongStreamIdNoIncrement(current, count) == current # Digits(count)

(* current != count + 1 *)
WrongStreamId(current, count) == current # Digits(count + 1)

(* Mutant: the frame with the wrong id is skipped and the loop goes on. *)
OnWrongStreamIdContinue(d) == d

(* eprintln!(...); break; and so Ok(decoded). *)
OnWrongStreamId(d) == [d EXCEPT !.result = Ok(d.decoded)]

(* Mutant: a codec error is dropped and the loop goes on. *)
OnCodecErrorIgnore(d) == d

(* The `?` of lines 68 and 77: Err(Error::Decode(e)) is returned. *)
OnCodecError(d) == [d EXCEPT !.result = Err("Decode")]

(* Mutant: the list is pushed and the count is left as it was. *)
OnDecodedNoCount(d, h) ==
    [d EXCEPT !.table = h.table, !.decoded = Append(@, h.fields)]

(* decoded.push(..); count += 1; *)
OnDecoded(d, h) ==
    [d EXCEPT !.table = h.table, !.decoded = Append(@, h.fields),
              !.count = @ + 1]

(* One evaluation of the while-let condition and, for a frame, of the body. *)
DecodeIteration(buf, d) ==
    LET r == BlockIteratorNext(buf, d.blocks)
        d1 == [d EXCEPT !.blocks = r.b]
    IN
    IF r.ret.kind = "Panic" THEN [d1 EXCEPT !.result = Panicked("advance")]
    ELSE IF r.ret.kind \in {"TrailingData", "UnexpectedEnd"}
    THEN [d1 EXCEPT !.result = Panicked(r.ret.kind)]
    ELSE IF r.ret.kind = "None" THEN [d1 EXCEPT !.result = Ok(d.decoded)]
    ELSE
    LET current == r.ret.id
        buf1 == r.ret.block
        d2 == [d1 EXCEPT !.applied = Append(@, Frame(current, buf1))]
    IN
    IF current = Digits(0)
    THEN LET e == OnEncoderRecv(d.table, buf1) IN
         IF e.ok THEN [d2 EXCEPT !.table = e.table]
         ELSE OnCodecError(d2)
    ELSE IF WrongStreamId(current, d.count)
    THEN OnWrongStreamId(d1)
    ELSE LET h == DecodeHeader(d.table, buf1) IN
         IF h.ok THEN OnDecoded(d2, h) ELSE OnCodecError(d2)

RECURSIVE DecodeLoop(_, _)
DecodeLoop(buf, d) ==
    IF d.result # Running THEN d ELSE DecodeLoop(buf, DecodeIteration(buf, d))

(* The whole of decode on a file: how it ends. *)
EncodedFileDecode(file) ==
    IF ~file.readable THEN Err("IO")
    ELSE DecodeLoop(file.bytes, DecodeLocals).result

-----------------------------------------------------------------------------
(* The files decode is run on. *)

FileIds == {Digits(0), Digits(1), Digits(2), Digits(3)}

FilePayloads == {<<7>>, <<255, 1>>}

FileFrames == {Frame(id, p) : id \in FileIds, p \in FilePayloads}

FileTails ==
    {NoTail, TailOf("trailing", <<9>>),
     TailOf("truncated", U64Encode(Digits(1)) \o U32Encode(Digits(1)))}

-----------------------------------------------------------------------------
(* Paths and the directory tree. A name is the sequence of its characters,  *)
(* a path the sequence of its components from the root. The tree is a       *)
(* chain of directories t.dir below the root, a directory `qifs` in the     *)
(* directory at each depth of t.qifs, and one file t.fname in the innermost *)
(* directory. A path whose first component is Here is relative: it is      *)
(* taken from the working directory t.cwd; <<Here>> is the empty path.      *)

None == [some |-> FALSE, v |-> <<>>]
Some(v) == [some |-> TRUE, v |-> v]

Qifs == <<"q", "i", "f", "s">>
DotQif == <<".", "q", "i", "f">>
DotOut == <<".", "o", "u", "t">>
DotDot == <<".", ".">>
Encoded == <<"e", "n", "c", "o", "d", "e", "d">>
Qpack05 == <<"q", "p", "a", "c", "k", "-", "0", "5">>
Here == <<>>

IsRelative(path) == path # <<>> /\ path[1] = Here

(* PathBuf::from(name) *)
PathFrom(name) == <<Here, name>>
InvalidByte == "\\xFF"          \* a byte of a name that is not UTF-8

(* Path::file_name: absent for the root, for the empty path and for a path *)
(* ending in `..`                                                           *)
FileName(path) ==
    IF path = <<>> \/ path = <<Here>> \/ path[Len(path)] = DotDot THEN None
    ELSE Some(path[Len(path)])

(* OsStr::to_str *)
ToStr(name) ==
    IF \E i \in 1..Len(name) : name[i] = InvalidByte THEN None ELSE Some(name)

(* Path::ancestors: the path itself first, then each parent up to the root *)
(* (up to the empty path, for a relative path)                              *)
Ancestors(path) ==
    LET n == IF IsRelative(path) THEN Len(path) ELSE Len(path) + 1 IN
    [i \in 1..n |-> SubSeq(path, 1, Len(path) + 1 - i)]

(* Path::parent: the path without its last component *)
Parent(path) ==
    IF path = <<>> \/ path = <<Here>> THEN None
    ELSE Some(SubSeq(path, 1, Len(path) - 1))

Take(s, n) == SubSeq(s, 1, IF Len(s) < n THEN Len(s) ELSE n)

FilePath(t) == Append(t.dir, t.fname)

(* The path with each `..` taken against the component before it (in the   *)
(* paths of the model a `..` follows a directory).                          *)
RECURSIVE Resolve(_)
Resolve(path) ==
    IF path = <<>> THEN <<>>
    ELSE LET parent == Resolve(SubSeq(path, 1, Len(path) - 1)) IN
         IF path[Len(path)] = DotDot
         THEN SubSeq(parent, 1, Len(parent) - 1)
         ELSE Append(parent, path[Len(path)])

(* Where the file system looks a path up: nowhere for the empty path. *)
Absolute(t, path) ==
    IF path = <<Here>> THEN None
    ELSE IF IsRelative(path) THEN Some(Resolve(t.cwd \o Tail(path)))
    ELSE Some(Resolve(path))

IsDir(t, path) ==
    /\ Absolute(t, path).some
    /\ LET p == Absolute(t, path).v IN
       \/ IsPrefix(p, t.dir)
       \/ /\ p # <<>>
          /\ p[Len(p)] = Qifs
          /\ IsPrefix(SubSeq(p, 1, Len(p) - 1), t.dir)
          /\ (Len(p) - 1) \in t.qifs

IsFile(t, path) ==
    Absolute(t, path).some /\ Absolute(t, path).v = FilePath(t)

(* Path::read_dir: the entries' paths, or an error for what is no directory *)
ReadDir(t, path) ==
    LET p == Absolute(t, path).v IN
    IF ~IsDir(t, path) \/ ~IsPrefix(p, t.dir)
    THEN [ok |-> IsDir(t, path), entries |-> {}]
    ELSE [ok |-> TRUE,
          entries |->
              (IF Len(p) < Len(t.dir)
               THEN {Append(path, t.dir[Len(p) + 1])}
               ELSE {Append(path, t.fname)})
              \cup (IF Len(p) \in t.qifs THEN {Append(path, Qifs)} ELSE {})]

-----------------------------------------------------------------------------
(* find_qif_dir and find_qif *)

(* The for loop of find_qif_dir over the ancestors as; `reads` is history:  *)
(* the directories read_dir was called on.                                  *)
RECURSIVE SearchAncestors(_, _, _)
SearchAncestors(t, as, reads) ==
    IF as = <<>> THEN [result |-> Ok(None), reads |-> reads]
    ELSE
    LET a == Head(as)
        dir == ReadDir(t, a)
        hits == {e \in dir.entries : FileName(e) = Some(Qifs)}
    IN  IF ~dir.ok THEN [result |-> Err("IO"), reads |-> Append(reads, a)]
        ELSE IF hits # {}
        THEN [result |-> Ok(Some(CHOOSE e \in hits : TRUE)),
              reads |-> Append(reads, a)]
        ELSE SearchAncestors(t, Tail(as), Append(reads, a))

FindQifDir(t, path) ==
    SearchAncestors(t, Take(Ancestors(path), SearchDepth), <<>>)

(* s.split(".").take(1).collect::<String>() *)
RECURSIVE FirstPiece(_)
FirstPiece(s) ==
    IF s = <<>> \/ Head(s) = "." THEN <<>>
    ELSE <<Head(s)>> \o FirstPiece(Tail(s))

FindQif(t, path) ==
    LET file_name == FileName(path)
        text == IF file_name.some THEN ToStr(file_name.v) ELSE None
    IN  IF ~text.some THEN [result |-> Err("BadFilename"), reads |-> <<>>]
        ELSE
        LET name == FirstPiece(text.v)
            d == FindQifDir(t, path)
        IN  IF d.result.kind = "Err" THEN d
            ELSE IF d.result.value.some
            THEN [result |-> Ok(Some(Append(d.result.value.v, name \o DotQif))),
                  reads |-> d.reads]
            ELSE d

-----------------------------------------------------------------------------
(* ImplEncodedDir::iter *)

EncodedFile(file, qif) == [file |-> file, qif |-> qif]

(* if let Ok(f) = find_qif(..) { f } else { None } *)
QifOf(r) == IF r.kind = "Ok" THEN r.value ELSE None

ImplEncodedDirIter(t, path) ==
    LET dir == ReadDir(t, path) IN
    IF ~dir.ok THEN Err("IO")
    ELSE Ok({EncodedFile(e, QifOf(FindQif(t, e).result)) :
                e \in {x \in dir.entries : IsFile(t, x)}})

-----------------------------------------------------------------------------
(* InputType: is_encoded_dir and what_is *)

(* str::ends_with and str::contains *)
EndsWith(s, suffix) ==
    /\ Len(suffix) <= Len(s)
    /\ SubSeq(s, Len(s) - Len(suffix) + 1, Len(s)) = suffix

Contains(s, piece) ==
    \E i \in 1..(Len(s) - Len(piece) + 1) :
        SubSeq(s, i, i + Len(piece) - 1) = piece

NoFile == EncodedFile(<<>>, None)

InputTypeOf(kind, file, dir, name) ==
    [kind |-> kind, file |-> file, dir |-> dir, name |-> name]
InputTypeEncodedFile(file) == InputTypeOf("EncodedFile", file, <<>>, <<>>)
InputTypeImplEncodedDir(dir, name) ==
    InputTypeOf("ImplEncodedDir", NoFile, dir, name)
InputTypeQifFile == InputTypeOf("QifFile", NoFile, <<>>, <<>>)
InputTypeUnknown == InputTypeOf("Unknown", NoFile, <<>>, <<>>)

(* .map(|e| e.file_name()).filter_map(|e| e): the names of the paths that  *)
(* have one, in order.                                                      *)
RECURSIVE AncestorNames(_)
AncestorNames(paths) ==
    IF paths = <<>> THEN <<>>
    ELSE LET name == FileName(Head(paths)) IN
         (IF name.some THEN <<name.v>> ELSE <<>>) \o AncestorNames(Tail(paths))

IsEncodedDir(t, path) ==
    IF ~IsDir(t, path) THEN FALSE
    ELSE LET ancestors == Take(AncestorNames(Ancestors(path)), 3) IN
         /\ Len(ancestors) >= 3
         /\ ancestors[2] = Qpack05
         /\ ancestors[3] = Encoded

(* Mutant: the encoded-file mark is looked for at the end of the name. *)
IsEncodedNameSuffix(s) == EndsWith(s, DotOut)

(* path.contains(".out") *)
IsEncodedName(s) == Contains(s, DotOut)

(* what_is. In its first branch `path` is rebound to the file name's text,  *)
(* and the EncodedFile is built from that.                                  *)
WhatIs(t, path) ==
    IF IsFile(t, path)
    THEN LET file_name == FileName(path)
             text == IF file_name.some THEN ToStr(file_name.v) ELSE None
         IN  IF ~text.some THEN Err("BadFilename")
             ELSE IF IsEncodedName(text.v)
             THEN Ok(InputTypeEncodedFile(
                      EncodedFile(PathFrom(text.v),
                                  QifOf(FindQif(t, PathFrom(text.v)).result))))
             ELSE IF EndsWith(text.v, DotQif) THEN Ok(InputTypeQifFile)
             ELSE Ok(InputTypeUnknown)
    ELSE IF IsEncodedDir(t, path)
    THEN LET parent == Parent(path)
             name == IF parent.some THEN FileName(parent.v) ELSE None
             text == IF name.some THEN ToStr(name.v) ELSE None
         IN  IF ~text.some THEN Panicked("unwrap")
             ELSE Ok(InputTypeImplEncodedDir(path, text.v))
    ELSE Ok(InputTypeUnknown)

-----------------------------------------------------------------------------
(* The parser driven by an arbitrary caller. *)

NoOutcome == [ret |-> NoRet, at |-> 0]

ParserIdle ==
    /\ blocks = BlockIteratorNew
    /\ ret = NoRet
    /\ yielded = <<>>
    /\ outcome = NoOutcome

NotCalled == [result |-> Running, reads |-> <<>>]

FindIdle ==
    /\ tree = [dir |-> <<>>, qifs |-> {}, fname |-> <<"a">>, cwd |-> <<>>]
    /\ query = <<>>
    /\ found = NotCalled
    /\ listing = Running
    /\ classified = Running

FileIdle == encoded = <<>> /\ frames = <<>> /\ tail = NoTail

(* No decode has been called: no table, no parser, nothing decoded. *)
NoLocals ==
    [blocks |-> BlockIteratorNew, table |-> <<>>, count |-> 0,
     decoded |-> <<>>, applied |-> <<>>, result |-> Running]

DecodeIdle == dec = NoLocals

NoInput == [kind |-> "None", files |-> <<>>, readable |-> TRUE]

MainLocals ==
    [pc |-> "start", next |-> 1, failures |-> <<>>, printed_ok |-> <<>>,
     decoded_files |-> <<>>, outcomes |-> <<>>, reported |-> <<>>,
     exit |-> "Running"]

MainIdle ==
    /\ input = NoInput
    /\ main = MainLocals

InitParser ==
    /\ frames \in SeqsUpTo(ParserFrames, MaxFrames)
    /\ tail \in ParserTails
    /\ encoded = Concat(frames) \o tail.bytes
    /\ ParserIdle
    /\ DecodeIdle
    /\ MainIdle
    /\ FindIdle

CallNext ==
    /\ ret.kind # "Panic"
    /\ LET r == BlockIteratorNext(encoded, blocks) IN
       /\ blocks' = r.b
       /\ ret' = r.ret
       /\ yielded' = IF r.ret.kind = "Some"
                     THEN Append(yielded, Frame(r.ret.id, r.ret.block))
                     ELSE yielded
       /\ outcome' = IF r.ret.kind # "Some" /\ outcome = NoOutcome
                     THEN [ret |-> r.ret, at |-> Len(yielded)]
                     ELSE outcome
    /\ UNCHANGED <<fileVars, dec, input, main, findVars>>

NextParser == CallNext

SpecParser == InitParser /\ [][NextParser]_vars

-----------------------------------------------------------------------------
(* decode run on one file, an iteration of its loop at a time. *)

InitDecode ==
    /\ frames \in SeqsUpTo(FileFrames, MaxFileFrames)
    /\ tail \in FileTails
    /\ encoded = Concat(frames) \o tail.bytes
    /\ ParserIdle
    /\ dec = DecodeLocals
    /\ MainIdle
    /\ FindIdle

DecodeStep ==
    /\ dec.result = Running
    /\ dec' = DecodeIteration(encoded, dec)
    /\ UNCHANGED <<fileVars, parserVars, input, main, findVars>>

NextDecode == DecodeStep

SpecDecode == InitDecode /\ [][NextDecode]_vars

-----------------------------------------------------------------------------
(* main. `input` is the value of InputType::what_is: an encoded file, an    *)
(* encoded directory with the files its enumeration gives (in the order it  *)
(* gives them) or another kind, or the error what_is failed with. `dec` is  *)
(* the locals of the decode call made last, as it left them; decoded_files  *)
(* and outcomes are history: the files decode was called on and what each   *)
(* call came to.                                                            *)

(* The locals of decode(file) when it ends; a file that cannot be read      *)
(* (line 52) returns before there are any.                                  *)
DecodeEnd(file) ==
    IF file.readable THEN DecodeLoop(file.bytes, DecodeLocals) ELSE dec

EncodedFileInput(file) ==
    [kind |-> "EncodedFile", files |-> <<file>>, readable |-> TRUE]
ImplEncodedDirInput(files, readable) ==
    [kind |-> "ImplEncodedDir", files |-> files, readable |-> readable]
OtherInput(kind) == [kind |-> kind, files |-> <<>>, readable |-> TRUE]

GoodBytes == Concat(<<Frame(Digits(0), <<7>>), Frame(Digits(1), <<7>>)>>)

(* One file of each way decode can go. *)
MainFiles ==
    {File(FALSE, <<>>),
     File(TRUE, <<>>),
     File(TRUE, GoodBytes),
     File(TRUE, Concat(<<Frame(Digits(1), <<255, 1>>)>>)),
     File(TRUE, Concat(<<Frame(Digits(2), <<7>>)>>)),
     File(TRUE, GoodBytes \o <<9>>),
     File(TRUE, GoodBytes \o U64Encode(Digits(2)) \o U32Encode(Digits(1)))}

MainInputs ==
    {EncodedFileInput(f) : f \in MainFiles}
    \cup {ImplEncodedDirInput(fs, TRUE) : fs \in SeqsUpTo(MainFiles, MaxFiles)}
    \cup {ImplEncodedDirInput(<<>>, FALSE)}
    \cup {OtherInput(k) : k \in {"QifFile", "QifDir", "Unknown", "Err"}}

InitMain ==
    /\ FileIdle
    /\ ParserIdle
    /\ DecodeIdle
    /\ input \in MainInputs
    /\ main = MainLocals
    /\ FindIdle

(* Lines 231-236 and 243: the match on what_is's value, up to the loop. *)
MainMatch ==
    /\ main.pc = "start"
    /\ main' =
         IF input.kind = "Err"
         THEN [main EXCEPT !.pc = "exited", !.exit = "Err"]
         ELSE IF input.kind = "EncodedFile"
         THEN [main EXCEPT !.pc = "file"]
         ELSE IF input.kind = "ImplEncodedDir"
         THEN IF input.readable
              THEN [main EXCEPT !.pc = "dir"]
              ELSE [main EXCEPT !.pc = "exited", !.exit = "Err"]
         ELSE [main EXCEPT !.pc = "exited", !.exit = "Panic"]
    /\ UNCHANGED <<fileVars, parserVars, dec, input, findVars>>

(* Line 233: file.decode(); a value returned is dropped. *)
MainDecodeFile ==
    /\ main.pc = "file"
    /\ LET r == EncodedFileDecode(input.files[1])
           m == [main EXCEPT !.decoded_files = Append(@, 1),
                             !.outcomes = Append(@, r)]
       IN
       main' =
         IF r.kind = "Panic"
         THEN [m EXCEPT !.pc = "exited", !.exit = "Panic"]
         ELSE [m EXCEPT !.pc = "report"]
    /\ dec' = DecodeEnd(input.files[1])
    /\ UNCHANGED <<fileVars, parserVars, input, findVars>>

(* Lines 236-241: one iteration of the for loop. *)
MainDecodeNext ==
    /\ main.pc = "dir"
    /\ main.next <= Len(input.files)
    /\ LET r == EncodedFileDecode(input.files[main.next])
           m == [main EXCEPT !.decoded_files = Append(@, main.next),
                             !.outcomes = Append(@, r),
                             !.next = @ + 1]
       IN
       main' =
         IF r.kind = "Panic"
         THEN [m EXCEPT !.pc = "exited", !.exit = "Panic"]
         ELSE IF r.kind = "Err"
         THEN [m EXCEPT !.failures = Append(@, <<main.next, r.err>>)]
         ELSE [m EXCEPT !.printed_ok = Append(@, main.next)]
    /\ dec' = DecodeEnd(input.files[main.next])
    /\ UNCHANGED <<fileVars, parserVars, input, findVars>>

(* The loop is over. *)
MainLoopEnd ==
    /\ main.pc = "dir"
    /\ main.next > Len(input.files)
    /\ main' = [main EXCEPT !.pc = "report"]
    /\ UNCHANGED <<fileVars, parserVars, dec, input, findVars>>

(* Lines 246-250: the failures are printed and main returns Ok(()). *)
MainReport ==
    /\ main.pc = "report"
    /\ main' = [main EXCEPT !.pc = "exited", !.exit = "Ok",
                            !.reported = main.failures]
    /\ UNCHANGED <<fileVars, parserVars, dec, input, findVars>>

NextMain ==
    \/ MainMatch
    \/ MainDecodeFile
    \/ MainDecodeNext
    \/ MainLoopEnd
    \/ MainReport

SpecMain == InitMain /\ [][NextMain]_vars

-----------------------------------------------------------------------------
(* The reference lookup and the enumeration on a directory tree. *)

FileNames ==
    {<<"a", ".", "o", "u", "t">>,
     <<"b", ".", "c", ".", "o", "u", "t">>,
     <<".", "o", "u", "t">>,
     <<"o", "u", "t">>,
     <<"a", InvalidByte, ".", "o", "u", "t">>}

Trees ==
    {[dir |-> [i \in 1..n |-> <<"d">>], qifs |-> q, fname |-> f,
      cwd |-> <<>>] :
        n \in 0..MaxDepth, q \in SUBSET (0..MaxDepth), f \in FileNames}

InitFind ==
    /\ FileIdle
    /\ ParserIdle
    /\ DecodeIdle
    /\ MainIdle
    /\ tree \in {t \in Trees : t.qifs \subseteq 0..Len(t.dir)}
    /\ query \in {FilePath(tree), Append(tree.dir, DotDot)}
    /\ found = NotCalled
    /\ listing = Running
    /\ classified = Running

FindQifCall ==
    /\ found = NotCalled
    /\ found' = FindQif(tree, query)
    /\ UNCHANGED <<fileVars, parserVars, dec, input, main, tree, query,
                   listing, classified>>

DirIter ==
    /\ listing = Running
    /\ listing' = ImplEncodedDirIter(tree, tree.dir)
    /\ UNCHANGED <<fileVars, parserVars, dec, input, main, tree, query,
                   found, classified>>

NextFind == FindQifCall \/ DirIter

SpecFind == InitFind /\ [][NextFind]_vars

-----------------------------------------------------------------------------
(* The classification of a path of a directory tree. *)

DirNames == {Encoded, Qpack05, <<"i">>}

ClassifyNames ==
    {<<"a", ".", "o", "u", "t">>,
     <<"a", ".", "o", "u", "t", ".", "1">>,
     <<"a", ".", "o", "u", "t", ".", "q", "i", "f">>,
     <<"a", ".", "q", "i", "f">>,
     <<"a">>,
     <<"a", InvalidByte, ".", "q", "i", "f">>}

ClassifyTrees ==
    {[dir |-> d, qifs |-> q, fname |-> f, cwd |-> c] :
        d \in SeqsUpTo(DirNames, MaxDepth), q \in {{}, {0}},
        f \in ClassifyNames, c \in {<<>>}} \cup
    {[dir |-> d, qifs |-> {}, fname |-> f, cwd |-> d] :
        d \in SeqsUpTo(DirNames, MaxDepth), f \in ClassifyNames}

(* The file, its directory, the directory through one and two `..`, and a   *)
(* path nothing is at.                                                      *)
ClassifyPaths(t) ==
    {FilePath(t), t.dir, Append(t.dir, DotDot), t.dir \o <<DotDot, DotDot>>,
     Append(t.dir, <<"m">>)}

InitClassify ==
    /\ FileIdle
    /\ ParserIdle
    /\ DecodeIdle
    /\ MainIdle
    /\ tree \in ClassifyTrees
    /\ query \in ClassifyPaths(tree)
    /\ found = NotCalled
    /\ listing = Running
    /\ classified = Running

WhatIsCall ==
    /\ classified = Running
    /\ classified' = WhatIs(tree, query)
    /\ UNCHANGED <<fileVars, parserVars, dec, input, main, tree, query,
                   found, listing>>

NextClassify == WhatIsCall \/ DirIter

SpecClassify == InitClassify /\ [][NextClassify]_vars

-----------------------------------------------------------------------------
(* Properties of the parser, under SpecParser. *)

(* C1: on a buffer that is a concatenation of well-formed frames (frames of *)
(* length 0 and the empty buffer included), next yields exactly those       *)
(* frames in buffer order, each with its stream id and its payload, then    *)
(* signals end-of-stream without error, and re-concatenating (stream id,    *)
(* length, payload) of the yielded frames gives back the buffer.            *)
C1_RoundTrip ==
    tail = NoTail =>
        /\ ret.kind \notin {"TrailingData", "UnexpectedEnd"}
        /\ IsPrefix(yielded, frames)
        /\ outcome # NoOutcome =>
              /\ outcome.ret = OkNone
              /\ yielded = frames
              /\ Concat(yielded) = encoded

C1_Witness ==
    /\ tail = NoTail
    /\ outcome.ret = OkNone
    /\ Len(yielded) = 2
    /\ yielded[1] = Frame(Digits(258), <<>>)
    /\ yielded[2] = Frame(Digits(1), <<1, 2>>)

(* C5: on a buffer of complete frames followed by n trailing bytes,         *)
(* 1 <= n <= 11, next yields every complete frame and then fails with       *)
(* TrailingData(n); with n = 0 it signals end-of-stream instead.            *)
C5_TrailingData ==
    tail.kind \in {"none", "trailing"} =>
        /\ IsPrefix(yielded, frames)
        /\ outcome # NoOutcome =>
              /\ outcome.at = Len(frames)
              /\ outcome.ret = IF Len(tail.bytes) = 0 THEN OkNone
                               ELSE ErrTrailingData(Len(tail.bytes))

C5_Witness ==
    /\ tail.kind = "trailing"
    /\ Len(tail.bytes) = HeaderSize - 1
    /\ ret = ErrTrailingData(HeaderSize - 1)
    /\ Len(yielded) = 2
    /\ yielded[2].payload # <<>>

(* C6: when next reads a header whose declared length exceeds the bytes     *)
(* remaining after it, it fails with UnexpectedEnd, and no frame is yielded *)
(* by that call or by any later call on the same parser.                    *)
C6_NothingAfterUnexpectedEnd ==
    tail.kind = "truncated" =>
        /\ outcome # NoOutcome =>
              outcome.ret = ErrUnexpectedEnd /\ outcome.at = Len(frames)
        /\ outcome.ret = ErrUnexpectedEnd => Len(yielded) = outcome.at

(* C19: the parser is forward-only and stays finished: once next has       *)
(* signalled end-of-stream or returned TrailingData or UnexpectedEnd, every *)
(* later call returns without yielding a frame; the cursor never moves      *)
(* backwards and never past the end of the buffer.                          *)
C19_StaysFinished ==
    /\ [](outcome # NoOutcome =>
            /\ Len(yielded) = outcome.at
            /\ ret.kind \in {"None", "TrailingData", "UnexpectedEnd"})
    /\ [](blocks.pos <= Len(encoded))
    /\ [][blocks'.pos >= blocks.pos]_vars

-----------------------------------------------------------------------------
(* Properties of decode, under SpecDecode. *)

IsControl(f) == f.id = Digits(0)

RECURSIVE DataCount(_)
DataCount(fs) ==
    IF fs = <<>> THEN 0
    ELSE DataCount(Tail(fs)) + (IF IsControl(Head(fs)) THEN 0 ELSE 1)

(* The data frames of fs carry the ids 1, 2, ... in that order. *)
InOrder(fs) ==
    \A k \in 1..Len(fs) :
        ~IsControl(fs[k]) => fs[k].id = Digits(DataCount(SubSeq(fs, 1, k)))

CodecAccepts(fs) == \A k \in 1..Len(fs) : ~Malformed(fs[k].payload)

(* The codec run over fs in buffer order from table: what it decodes. *)
RECURSIVE CodecDecodes(_, _)
CodecDecodes(fs, table) ==
    IF fs = <<>> THEN <<>>
    ELSE IF IsControl(Head(fs))
    THEN CodecDecodes(Tail(fs), OnEncoderRecv(table, Head(fs).payload).table)
    ELSE LET h == DecodeHeader(table, Head(fs).payload) IN
         <<h.fields>> \o CodecDecodes(Tail(fs), h.table)

(* C2: on a well-formed file (whole frames, each accepted by the codec)     *)
(* whose data frames carry the ids 1..n in order, control frames            *)
(* interleaved anywhere, decode succeeds with exactly n header-field lists, *)
(* the i-th the codec's decode of data frame i against the table the frames *)
(* before it produced.                                                      *)
C2_DecodesInOrder ==
    (tail = NoTail /\ InOrder(frames) /\ CodecAccepts(frames)
        /\ dec.result # Running) =>
        /\ dec.result = Ok(CodecDecodes(frames, DynamicTableNew))
        /\ Len(dec.result.value) = DataCount(frames)

C2_Witness ==
    /\ tail = NoTail
    /\ Len(frames) = 3
    /\ frames[1].id = Digits(1)
    /\ frames[2].id = Digits(0)
    /\ frames[3].id = Digits(2)
    /\ dec.result.kind = "Ok"
    /\ Len(dec.result.value) = 2

(* The first data frame of fs whose id is not the count of data frames      *)
(* before it plus one is at k, and the codec accepts the frames before it.  *)
MismatchAt(fs, k) ==
    /\ k \in 1..Len(fs)
    /\ InOrder(SubSeq(fs, 1, k - 1))
    /\ CodecAccepts(SubSeq(fs, 1, k - 1))
    /\ ~IsControl(fs[k])
    /\ fs[k].id # Digits(DataCount(SubSeq(fs, 1, k - 1)) + 1)

(* C3: at a data frame whose id is not decoded_count + 1, decode stops: no  *)
(* later frame, control or data, reaches the codec, and decode returns      *)
(* success with exactly the lists decoded before the mismatch.              *)
C3_StopsAtMismatch ==
    \A k \in 1..Len(frames) :
        MismatchAt(frames, k) =>
            /\ IsPrefix(dec.applied, SubSeq(frames, 1, k - 1))
            /\ dec.result # Running =>
                  /\ dec.applied = SubSeq(frames, 1, k - 1)
                  /\ dec.result =
                        Ok(CodecDecodes(SubSeq(frames, 1, k - 1),
                                        DynamicTableNew))

C3_Witness ==
    /\ Len(frames) = 3
    /\ frames[1].id = Digits(1)
    /\ frames[2].id = Digits(3)
    /\ frames[3].id = Digits(2)
    /\ CodecAccepts(frames)
    /\ dec.result.kind = "Ok"
    /\ Len(dec.result.value) = 1

(* C4: when the parser fails with TrailingData or UnexpectedEnd during      *)
(* decode, decode returns that error as the file's failure.                 *)
C4_ParserErrorReturned ==
    (InOrder(frames) /\ CodecAccepts(frames) /\ dec.result # Running) =>
        /\ tail.kind = "trailing" => dec.result = Err("TrailingData")
        /\ tail.kind = "truncated" => dec.result = Err("UnexpectedEnd")

-----------------------------------------------------------------------------
(* Properties of main, under SpecMain. *)

Failed(file) == EncodedFileDecode(file).kind # "Ok"

(* C7: in a directory run main decodes every enumerated file, one after     *)
(* another and whatever the outcome of the earlier ones, and the final      *)
(* failure report holds exactly the files whose decode failed, each with    *)
(* its error.                                                               *)
C7_EveryFileDecoded ==
    (input.kind = "ImplEncodedDir" /\ input.readable /\ main.pc = "exited") =>
        /\ main.decoded_files = [i \in 1..Len(input.files) |-> i]
        /\ {e[1] : e \in {main.reported[j] : j \in 1..Len(main.reported)}}
             = {i \in 1..Len(input.files) : Failed(input.files[i])}

(* decode(file) run by itself, from a table made for it. *)
DecodeAlone(file) ==
    IF ~file.readable THEN Err("IO")
    ELSE DecodeLoop(file.bytes,
                    [blocks |-> BlockIteratorNew, table |-> DynamicTableNew,
                     count |-> 0, decoded |-> <<>>, applied |-> <<>>,
                     result |-> Running]).result

(* C15: every decode starts from a new, empty table that no other decode    *)
(* reads or writes: what decoding a file comes to depends on that file's    *)
(* bytes alone, and is the same whichever files were decoded before it in   *)
(* the batch.                                                               *)
C15_IndependentOfBatch ==
    /\ Len(main.outcomes) = Len(main.decoded_files)
    /\ \A i \in 1..Len(main.outcomes) :
          main.outcomes[i] = DecodeAlone(input.files[main.decoded_files[i]])
    /\ \A i, j \in 1..Len(main.outcomes) :
          input.files[main.decoded_files[i]] = input.files[main.decoded_files[j]]
              => main.outcomes[i] = main.outcomes[j]

C15_Witness ==
    /\ input.kind = "ImplEncodedDir"
    /\ input.files = <<File(TRUE, GoodBytes), File(TRUE, GoodBytes)>>
    /\ Len(main.outcomes) = 2
    /\ main.outcomes[2].kind = "Ok"
    /\ Len(main.outcomes[2].value) = 1
    /\ dec.table # DynamicTableNew

Reported(i) ==
    \/ \E j \in 1..Len(main.printed_ok) : main.printed_ok[j] = i
    \/ \E j \in 1..Len(main.reported) : main.reported[j][1] = i

(* C17: main reports success or failure for every encoded file it decodes,  *)
(* in single-file mode as well as in directory mode, and its exit outcome   *)
(* is a failure exactly when at least one file's decode failed.             *)
C17_ExitReflectsFailures ==
    (input.kind \in {"EncodedFile", "ImplEncodedDir"} /\ input.readable
       /\ main.pc = "exited") =>
        /\ \A i \in 1..Len(main.decoded_files) :
              Reported(main.decoded_files[i])
        /\ main.exit # "Ok" <=>
              \E i \in 1..Len(main.outcomes) : main.outcomes[i].kind # "Ok"

-----------------------------------------------------------------------------
(* Properties of the reference lookup, under SpecFind. *)

WellNamed(path) == FileName(path).some /\ ToStr(FileName(path).v).some

(* The depths of the file's own directory and of its ancestors within the   *)
(* search depth, and the nearest of them that holds a `qifs`.               *)
SearchedDepths(t) == {n \in 0..Len(t.dir) : n > Len(t.dir) - SearchDepth}
WithQifs(t) == t.qifs \cap SearchedDepths(t)
Nearest(t) == CHOOSE n \in WithQifs(t) : \A m \in WithQifs(t) : m <= n

(* C8: find_qif on an encoded file's path, when a directory among the       *)
(* file's own and its ancestors within the search depth has a child `qifs`, *)
(* returns <nearest such directory>/qifs/<canonical name>.qif.              *)
C8_NearestQifs ==
    (found # NotCalled /\ query = FilePath(tree) /\ WellNamed(query)
        /\ WithQifs(tree) # {}) =>
        found.result =
            Ok(Some(SubSeq(tree.dir, 1, Nearest(tree))
                    \o <<Qifs, FirstPiece(tree.fname) \o DotQif>>))

(* C9: find_qif on the path of an existing, well-named encoded file with no *)
(* `qifs` within the search depth returns "no reference", not an error.     *)
C9_NoReference ==
    (found # NotCalled /\ query = FilePath(tree) /\ WellNamed(query)
        /\ WithQifs(tree) = {}) =>
        found.result = Ok(None)

(* C10: a path whose file name is absent or is not text makes the lookup    *)
(* fail with BadFilename before any directory is read, and that outcome     *)
(* stays apart from "no reference found" for the file it concerns.          *)
C10_BadFilenameDistinct ==
    /\ (found # NotCalled /\ ~WellNamed(query)) =>
          found = [result |-> Err("BadFilename"), reads |-> <<>>]
    /\ listing.kind = "Ok" =>
          \A ef \in listing.value :
              FindQif(tree, ef.file).result = Err("BadFilename") => ef.qif # None

-----------------------------------------------------------------------------
(* Further properties of decode, under SpecDecode. *)

(* The codec rejects the frame at k, which reaches it: the frames before it *)
(* are in order and accepted, and it is a control frame or the data frame   *)
(* with the next id.                                                        *)
RejectedAt(fs, k) ==
    /\ k \in 1..Len(fs)
    /\ InOrder(SubSeq(fs, 1, k))
    /\ CodecAccepts(SubSeq(fs, 1, k - 1))
    /\ Malformed(fs[k].payload)

(* C14: when the codec rejects a control frame's instruction or a data      *)
(* frame's header block, decode stops at that frame and returns a codec     *)
(* decode error: no later frame is pulled from the parser or applied, and   *)
(* no partial result is returned.                                           *)
C14_StopsAtCodecError ==
    \A k \in 1..Len(frames) :
        RejectedAt(frames, k) =>
            /\ IsPrefix(dec.applied, SubSeq(frames, 1, k))
            /\ dec.blocks.pos <= Len(Concat(SubSeq(frames, 1, k - 1))) + HeaderSize
            /\ dec.result # Running =>
                  /\ dec.result = Err("Decode")
                  /\ dec.applied = SubSeq(frames, 1, k)

C14_Witness ==
    /\ Len(frames) = 3
    /\ frames[1] = Frame(Digits(0), <<7>>)
    /\ frames[2] = Frame(Digits(1), <<255, 1>>)
    /\ frames[3] = Frame(Digits(2), <<7>>)
    /\ dec.result = Err("Decode")
    /\ dec.decoded = <<>>

(* The frames the codec took: those handed to it, less the one it rejected. *)
Taken ==
    IF dec.result = Err("Decode")
    THEN SubSeq(dec.applied, 1, Len(dec.applied) - 1)
    ELSE dec.applied

(* C16: at every point of a decode pass the result holds exactly            *)
(* decoded_count lists, the i-th the decode of the data frame with id i     *)
(* (the ids decoded are 1..decoded_count, no gap); the result only grows by *)
(* appending, and a control frame changes neither it nor decoded_count.     *)
C16_CountedInOrder ==
    /\ [](/\ Len(dec.decoded) = dec.count
          /\ DataCount(Taken) = dec.count
          /\ InOrder(Taken)
          /\ dec.decoded = CodecDecodes(Taken, DynamicTableNew))
    /\ [][/\ IsPrefix(dec.decoded, dec.decoded')
          /\ Len(dec.decoded') <= Len(dec.decoded) + 1
          /\ (Len(dec.applied') > Len(dec.applied)
                /\ IsControl(dec.applied'[Len(dec.applied')])) =>
               (dec.decoded' = dec.decoded /\ dec.count' = dec.count)]_vars

C16_Witness ==
    /\ dec.count = 2
    /\ Len(dec.applied) = 3
    /\ IsControl(dec.applied[2])
    /\ dec.result = Running

(* C20: decode terminates on every finite buffer: each iteration that       *)
(* yields a frame leaves the cursor at least the 12 header bytes further,   *)
(* so the iterations are at most the buffer's length over 12, and the       *)
(* iteration that is not followed by another ends the pass with a result,   *)
(* a stop at a mismatch, or an error. (An iteration after which the loop    *)
(* goes on has handed a frame to the codec: dec.applied counts them.)       *)
C20_Terminates ==
    /\ [][dec'.result = Running =>
            /\ dec'.blocks.pos >= dec.blocks.pos + HeaderSize
            /\ Len(dec'.applied) = Len(dec.applied) + 1]_vars
    /\ [](/\ HeaderSize * Len(dec.applied) <= dec.blocks.pos
          /\ dec.blocks.pos <= Len(encoded))

C20_Witness ==
    /\ Len(frames) = 3
    /\ dec.result.kind = "Ok"
    /\ dec.blocks.pos = Len(encoded)

-----------------------------------------------------------------------------
(* Properties of the classification, under SpecClassify. *)

(* The directory a path leads to has a parent named `qpack-05` and a        *)
(* grandparent named `encoded`.                                             *)
InEncodedLayout(t, path) ==
    /\ IsDir(t, path)
    /\ LET p == Absolute(t, path).v IN
       /\ Len(p) >= 3
       /\ p[Len(p) - 1] = Qpack05
       /\ p[Len(p) - 2] = Encoded

(* C11: what_is classifies a path as an encoded results directory only if   *)
(* it is a directory whose parent is named `qpack-05` and whose grandparent *)
(* is named `encoded`; a directory whose two nearest ancestor names are not *)
(* this pair is classified unknown.                                         *)
C11_OnlyEncodedLayout ==
    classified.kind = "Ok" =>
        /\ classified.value.kind = "ImplEncodedDir" =>
              InEncodedLayout(tree, query)
        /\ (IsDir(tree, query) /\ ~InEncodedLayout(tree, query)) =>
              classified.value.kind = "Unknown"

NameOf(path) == FileName(path).v

(* C12 as stated: on a regular file a name containing `.out` gives a single *)
(* encoded file, a name ending in `.qif` a plaintext reference file, a name *)
(* with neither unknown; every file whose name ends in `.qif` is classified *)
(* as a plaintext reference file.                                           *)
C12_ByFileName ==
    (IsFile(tree, query) /\ classified # Running) =>
        /\ classified.kind = "Ok"
        /\ Contains(NameOf(query), DotOut) =>
              classified.value.kind = "EncodedFile"
        /\ EndsWith(NameOf(query), DotQif) =>
              classified.value.kind = "QifFile"
        /\ (~Contains(NameOf(query), DotOut)
              /\ ~EndsWith(NameOf(query), DotQif)) =>
              classified.value.kind = "Unknown"

(* C12, amended: on a regular file whose name is text, a name containing    *)
(* `.out` gives a single encoded file, whatever its ending; a name without  *)
(* `.out` ending in `.qif` gives a plaintext reference file; any other name *)
(* gives unknown. A name that is not text gives the error BadFilename.      *)
C12_EncodedBeforeReference ==
    (IsFile(tree, query) /\ classified # Running) =>
        IF ~ToStr(NameOf(query)).some THEN classified = Err("BadFilename")
        ELSE /\ classified.kind = "Ok"
             /\ classified.value.kind =
                  IF Contains(NameOf(query), DotOut) THEN "EncodedFile"
                  ELSE IF EndsWith(NameOf(query), DotQif) THEN "QifFile"
                  ELSE "Unknown"

C12_Witness ==
    /\ IsFile(tree, query)
    /\ EndsWith(NameOf(query), DotOut \o DotQif)
    /\ classified.kind = "Ok"
    /\ classified.value.kind = "EncodedFile"

(* C13: for a path naming a single encoded file what_is yields an           *)
(* EncodedFile whose file is the given path and whose reference is what     *)
(* find_qif gives for that path: the EncodedFile that iter constructs for   *)
(* that file. Paths are compared by the place they lead to.                 *)
C13_SameAsIter ==
    (IsFile(tree, query) /\ classified.kind = "Ok"
       /\ classified.value.kind = "EncodedFile") =>
        LET f == classified.value.file IN
        /\ Absolute(tree, f.file) = Absolute(tree, query)
        /\ f.qif = QifOf(FindQif(tree, query).result)
        /\ listing.kind = "Ok" =>
              \E e \in listing.value :
                  /\ Absolute(tree, e.file) = Absolute(tree, f.file)
                  /\ e.qif = f.qif

(* C18: whenever is_encoded_dir accepts the path, what_is completes without *)
(* crashing and yields the encoded results directory variant carrying the   *)
(* given path and the name of the path's immediate parent; this holds for   *)
(* paths with components that have no file name (such as `..`) too.         *)
C18_CarriesPathAndParent ==
    (~IsFile(tree, query) /\ IsEncodedDir(tree, query)
       /\ classified # Running) =>
        /\ classified.kind = "Ok"
        /\ classified.value.kind = "ImplEncodedDir"
        /\ classified.value.dir = query
        /\ Parent(query).some
        /\ FileName(Parent(query).v) = Some(classified.value.name)

=============================================================================
